---- MODULE Spec2Model ----
(***************************************************************************)
(* Model of the data-quality validation agent                              *)
(* (agents/data_quality_validation.py) and of the audit trail agent        *)
(* (AuditTrail.py).                                                        *)
(*                                                                         *)
(* Fractions are carried as integers in ten-thousandths, which is what     *)
(* round(x, 4) produces: 0.4 is 4000, 0.3333 is 3333.  Quartiles are       *)
(* carried times four and the IQR multiplier as a ratio iqr_num/iqr_den,   *)
(* so that every comparison of the code is an exact integer comparison.    *)
(* (With integer cell values and a dyadic multiplier such as 1.5 the       *)
(* floating-point computation of the code is exact as well.)               *)
(***************************************************************************)
EXTENDS Integers, Sequences, FiniteSets, TLC

VARIABLES
    df,          \* the DataFrame handed to run
    self,        \* the agent's attributes, set by __init__
    raw,         \* the report returned by run, or NoReport
    formatted,   \* the result of the latest format_report call, or NoReport
    previous,    \* the result of the format_report call before it, or NoReport
    raw_at_call, \* the raw report as it was when format_report was entered
    calls,       \* number of format_report calls made
    pc,          \* position of the driver script
    log_file,    \* the audit log file: [exists, valid, data, size]
    proc,        \* per audit-trail client: position and locals
    clock,       \* datetime.now(), as a counter
    result       \* what the latest audit call returned: NoResult for log_action,
                 \* the records, the arguments and the list read for query_logs

vars == <<df, self, raw, formatted, previous, raw_at_call, calls, pc,
          log_file, proc, clock, result>>

validator_vars == <<df, self, raw, formatted, previous, raw_at_call, calls, pc>>
audit_vars == <<log_file, proc, clock, result>>

----------------------------------------------------------------------------
(* Bounds of the model *)

MaxRows == 2
MaxCols == 2
MaxSeries == 5
MaxEntries == 1
MaxFormatCalls == 2
MaxLog == 3
NumClients == 2

----------------------------------------------------------------------------
(* Cells and DataFrames *)

NoReport == [none |-> TRUE]

\* A cell: missing (None / NaN), a number, or a string.  A string with
\* v >= 0 is the decimal text of v ("5"); v = -1 is a word ("abc").
Null == [t |-> "null", v |-> 0]
Num(n) == [t |-> "int", v |-> n]
Str(n) == [t |-> "str", v |-> n]

isnull(x) == x.t = "null"

\* Series.dropna()
dropna(cells) == SelectSeq(cells, LAMBDA x : ~isnull(x))

\* (boolean Series).sum()
CountTrue(cells, P(_)) == Cardinality({i \in DOMAIN cells : P(cells[i])})

\* A check of the columns alone
empty_columns_only(d) == Len(d.columns) = 0

\* DataFrame.empty: any axis of length 0
empty(d) == d.num_rows = 0 \/ Len(d.columns) = 0

\* round half to even of num/den (den > 0), the rounding of round() and of
\* the format specifier .1f on exactly representable values
RoundHalfEven(num, den) ==
    LET q == num \div den
        r == num % den
    IN  IF 2 * r < den THEN q
        ELSE IF 2 * r > den THEN q + 1
        ELSE IF q % 2 = 0 THEN q ELSE q + 1

\* round(num/den, 4), in ten-thousandths
Round4(num, den) == RoundHalfEven(10000 * num, den)

\* Map a sequence
MapSeq(s, F(_)) == [i \in DOMAIN s |-> F(s[i])]

----------------------------------------------------------------------------
(* DataQualityValidationAgent: checks *)

_dataset_summary(d) ==
    [ num_rows    |-> d.num_rows,
      num_columns |-> Len(d.columns),
      columns     |-> MapSeq(d.columns, LAMBDA c : c.name) ]

\* A dict is the sequence of its items in insertion order.
_check_missing_values(d) ==
    MapSeq(SelectSeq(d.columns, LAMBDA c : \E i \in DOMAIN c.cells : isnull(c.cells[i])),
           LAMBDA c : [col |-> c.name,
                       val |-> Round4(CountTrue(c.cells, isnull), d.num_rows)])

is_numeric_dtype(c) == c.dtype = "numeric"
is_object_dtype(c) == c.dtype = "object"

\* isinstance(x, (int, float, np.number))
IsNumber(x) == x.t = "int"

\* pd.to_numeric(series.dropna()) raises iff some value is a string that
\* does not parse as a number
to_numeric_raises(cells) ==
    \E i \in DOMAIN cells : cells[i].t = "str" /\ cells[i].v < 0

\* The issue recorded for one column, or "" when there is none
TypeIssue(c) ==
    IF is_numeric_dtype(c)
    THEN IF CountTrue(c.cells, LAMBDA x : ~IsNumber(x) /\ ~isnull(x)) > 0
         THEN "Numeric column contains non-numeric values"
         ELSE ""
    ELSE IF is_object_dtype(c)
    THEN IF /\ to_numeric_raises(dropna(c.cells))
            /\ Cardinality({dropna(c.cells)[i].t : i \in DOMAIN dropna(c.cells)}) > 1
         THEN "Mixed data types in column"
         ELSE ""
    ELSE ""

_check_type_consistency(d) ==
    MapSeq(SelectSeq(d.columns, LAMBDA c : TypeIssue(c) # ""),
           LAMBDA c : [col |-> c.name, val |-> TypeIssue(c)])

\* Values of a series in ascending order
Sorted(values) == SortSeq(values, LAMBDA a, b : a < b)

\* 4 * Series.quantile(fourths / 4) with linear interpolation, for a
\* non-empty sequence of integers
Quantile4(values, fourths) ==
    LET s    == Sorted(values)
        pos4 == (Len(s) - 1) * fourths
        i    == pos4 \div 4
        r    == pos4 % 4
    IN  IF r = 0 THEN 4 * s[i + 1]
        ELSE (4 - r) * s[i + 1] + r * s[i + 2]

\* Bounds of the IQR rule, times 4 * iqr_den
LowerBound(me, values) ==
    LET q1 == Quantile4(values, 1)
        q3 == Quantile4(values, 3)
    IN  me.iqr_den * q1 - me.iqr_num * (q3 - q1)

UpperBound(me, values) ==
    LET q1 == Quantile4(values, 1)
        q3 == Quantile4(values, 3)
    IN  me.iqr_den * q3 + me.iqr_num * (q3 - q1)

\* Bounds taken as exclusive
IsOutlier_inclusive(me, values, x) ==
    \/ 4 * me.iqr_den * x <= LowerBound(me, values)
    \/ 4 * me.iqr_den * x >= UpperBound(me, values)

IsOutlier(me, values, x) ==
    \/ 4 * me.iqr_den * x < LowerBound(me, values)
    \/ 4 * me.iqr_den * x > UpperBound(me, values)

\* int(((series < lower) | (series > upper)).sum())
OutlierCount(me, values) ==
    Cardinality({i \in DOMAIN values : IsOutlier(me, values, values[i])})

\* The non-missing values of a numeric column
Values(c) == MapSeq(dropna(c.cells), LAMBDA x : x.v)

OutlierEntry(me, c) ==
    [ col        |-> c.name,
      method     |-> "IQR",
      count      |-> OutlierCount(me, Values(c)),
      percentage |-> Round4(OutlierCount(me, Values(c)), Len(Values(c))) ]

_detect_outliers(me, d) ==
    MapSeq(SelectSeq(d.columns,
                     LAMBDA c : /\ c.dtype = "numeric"
                                /\ Len(Values(c)) > 0
                                /\ OutlierCount(me, Values(c)) > 0),
           LAMBDA c : OutlierEntry(me, c))

----------------------------------------------------------------------------
(* DataQualityValidationAgent: severity *)

\* f"Column '{col}' missing {pct*100:.1f}% of values": the column and the
\* percentage in tenths of a percent
MissingIssue(col, pct) == [text |-> "missing", col |-> col, tenths |-> RoundHalfEven(pct, 10)]

DatasetIsEmpty == [text |-> "Dataset is empty", col |-> "", tenths |-> 0]

\* Threshold taken as exclusive
BlockingIssues_exclusive(me, report) ==
    MapSeq(SelectSeq(report.missing_values,
                     LAMBDA e : e.val > me.missing_critical_threshold),
           LAMBDA e : MissingIssue(e.col, e.val))

BlockingIssues(me, report) ==
    MapSeq(SelectSeq(report.missing_values,
                     LAMBDA e : e.val >= me.missing_critical_threshold),
           LAMBDA e : MissingIssue(e.col, e.val))

\* The warn threshold consumed as an intermediate tier
_compute_severity_warn_tier(me, report) ==
    IF BlockingIssues(me, report) # <<>>
    THEN [severity |-> "HIGH", blocking_issues |-> BlockingIssues(me, report)]
    ELSE IF \/ report.type_issues # <<>>
            \/ report.anomalies # <<>>
            \/ \E i \in DOMAIN report.missing_values :
                  report.missing_values[i].val >= me.missing_warn_threshold
    THEN [severity |-> "MEDIUM", blocking_issues |-> <<>>]
    ELSE [severity |-> "LOW", blocking_issues |-> <<>>]

_compute_severity(me, report) ==
    IF BlockingIssues(me, report) # <<>>
    THEN [severity |-> "HIGH", blocking_issues |-> BlockingIssues(me, report)]
    ELSE IF report.type_issues # <<>> \/ report.anomalies # <<>>
    THEN [severity |-> "MEDIUM", blocking_issues |-> <<>>]
    ELSE [severity |-> "LOW", blocking_issues |-> <<>>]

\* The empty-dataset report without its blocking issue
_empty_dataset_report_no_issue ==
    [ dataset_summary |-> [num_rows |-> 0, num_columns |-> 0, columns |-> <<>>],
      missing_values  |-> <<>>,
      type_issues     |-> <<>>,
      anomalies       |-> <<>>,
      severity        |-> "HIGH",
      blocking_issues |-> <<>> ]

_empty_dataset_report ==
    [ dataset_summary |-> [num_rows |-> 0, num_columns |-> 0, columns |-> <<>>],
      missing_values  |-> <<>>,
      type_issues     |-> <<>>,
      anomalies       |-> <<>>,
      severity        |-> "HIGH",
      blocking_issues |-> <<DatasetIsEmpty>> ]

Diagnostics(me, d) ==
    [ dataset_summary |-> _dataset_summary(d),
      missing_values  |-> _check_missing_values(d),
      type_issues     |-> _check_type_consistency(d),
      anomalies       |-> _detect_outliers(me, d) ]

run(me, d) ==
    IF empty(d)
    THEN _empty_dataset_report
    ELSE LET report == Diagnostics(me, d)
             sev    == _compute_severity(me, report)
         IN  [ dataset_summary |-> report.dataset_summary,
               missing_values  |-> report.missing_values,
               type_issues     |-> report.type_issues,
               anomalies       |-> report.anomalies,
               severity        |-> sev.severity,
               blocking_issues |-> sev.blocking_issues ]

----------------------------------------------------------------------------
(* DataQualityValidationAgent: formatting *)

_severity_summary(report) ==
    IF report.severity = "HIGH"
    THEN "Critical data quality issues detected. Dataset is not safe for modeling."
    ELSE IF report.severity = "MEDIUM"
    THEN "Dataset is usable with minor anomalies that should be reviewed."
    ELSE "Dataset meets all quality checks."

\* Severity derived again from the blocking issues
_format_status_recomputed(report) ==
    [ severity |-> IF Len(report.blocking_issues) > 0 THEN "HIGH" ELSE report.severity,
      blocking |-> Len(report.blocking_issues) > 0,
      summary  |-> _severity_summary(report) ]

_format_status(report) ==
    [ severity |-> report.severity,
      blocking |-> Len(report.blocking_issues) > 0,
      summary  |-> _severity_summary(report) ]

_format_dataset_overview(report) ==
    [ rows         |-> report.dataset_summary.num_rows,
      columns      |-> report.dataset_summary.num_columns,
      column_names |-> report.dataset_summary.columns ]

_format_data_quality(report) ==
    [ missing_values |-> [ columns_with_missing |-> Len(report.missing_values),
                           details              |-> report.missing_values ],
      type_issues    |-> [ count   |-> Len(report.type_issues),
                           details |-> report.type_issues ] ]

_format_anomalies(report) ==
    [ method  |-> "IQR",
      summary |-> IF report.anomalies # <<>>
                  THEN "Minor statistical outliers detected"
                  ELSE "No anomalies detected",
      details |-> report.anomalies ]

Resolve == "Resolve blocking data quality issues before modeling."
Proceed == "Proceed with downstream modeling."
ReviewAnomalies == "Review anomaly-prone numerical features for business validity."
NoMissing == "No missing-value preprocessing required."
NoTypeFix == "No schema or type corrections needed."

\* The first check without its else branch
_generate_recommendations_no_else(report) ==
    LET r0 == IF report.blocking_issues # <<>> THEN <<Resolve>> ELSE <<>>
        r1 == Append(r0, Proceed)
        r2 == IF report.anomalies # <<>> THEN Append(r1, ReviewAnomalies) ELSE r1
        r3 == IF report.missing_values = <<>> THEN Append(r2, NoMissing) ELSE r2
        r4 == IF report.type_issues = <<>> THEN Append(r3, NoTypeFix) ELSE r3
    IN  r4

_generate_recommendations(report) ==
    LET r1 == IF report.blocking_issues # <<>> THEN <<Resolve>> ELSE <<Proceed>>
        r2 == IF report.anomalies # <<>> THEN Append(r1, ReviewAnomalies) ELSE r1
        r3 == IF report.missing_values = <<>> THEN Append(r2, NoMissing) ELSE r2
        r4 == IF report.type_issues = <<>> THEN Append(r3, NoTypeFix) ELSE r3
    IN  r4

format_report(raw_report) ==
    [ status           |-> _format_status(raw_report),
      dataset_overview |-> _format_dataset_overview(raw_report),
      data_quality     |-> _format_data_quality(raw_report),
      anomaly_analysis |-> _format_anomalies(raw_report),
      blocking_issues  |-> raw_report.blocking_issues,
      recommendations  |-> _generate_recommendations(raw_report) ]

----------------------------------------------------------------------------
(* Inputs *)

\* Sequences over S of length lo..hi
SeqsOf(S, lo, hi) == UNION {[1..n -> S] : n \in lo..hi}

\* Column names, in the order the columns appear in the DataFrame
ColumnNames == <<"thal", "age", "ca", "sex">>

NumericCells == {Null, Num(0), Num(9)}
ObjectCells == {Null, Str(-1), Num(7)}

ColumnsOf(n) ==
      [dtype : {"numeric"}, cells : [1..n -> NumericCells]]
    \union
      [dtype : {"object"}, cells : [1..n -> ObjectCells]]

\* The DataFrame with n rows whose columns are cs, named in order
Dataset(n, cs) ==
    [ num_rows |-> n,
      columns  |-> [i \in DOMAIN cs |-> [name  |-> ColumnNames[i],
                                         dtype |-> cs[i].dtype,
                                         cells |-> cs[i].cells]] ]

\* __init__: thresholds in ten-thousandths, the IQR multiplier as a ratio.
\* The first is the default configuration (0.10, 0.30, 1.5).
Configs ==
    { [missing_warn_threshold |-> 1000, missing_critical_threshold |-> 3000,
       iqr_num |-> 3, iqr_den |-> 2],
      [missing_warn_threshold |-> 2000, missing_critical_threshold |-> 5000,
       iqr_num |-> 1, iqr_den |-> 4],
      [missing_warn_threshold |-> 1000, missing_critical_threshold |-> 6667,
       iqr_num |-> 1, iqr_den |-> 1] }

\* One numeric column, for the outlier detection
SeriesCells == {Null, Num(0), Num(1), Num(9)}

ExampleSeries == MapSeq(<<1, 2, 3, 4, 5, 6, 7, 8, 9, 1000>>, Num)

SeriesDataset(cells) ==
    [ num_rows |-> Len(cells),
      columns  |-> << [name |-> "col", dtype |-> "numeric", cells |-> cells] >> ]

\* Raw reports of the validator's shape, whatever their content
IssueTexts == {"Numeric column contains non-numeric values", "Mixed data types in column"}

\* Dicts with at most MaxEntries keys
DictsOf(Vals) ==
    UNION { { [i \in 1..n |-> [col |-> ColumnNames[i], val |-> vs[i]]] : vs \in [1..n -> Vals] }
            : n \in 0..MaxEntries }

AnomalyDicts ==
    UNION { { [i \in 1..n |-> [col |-> ColumnNames[i], method |-> "IQR",
                               count |-> cs[i], percentage |-> 2500 * cs[i]]]
              : cs \in [1..n -> {1, 2}] }
            : n \in 0..MaxEntries }

IssueLists ==
    UNION { [1..n -> {DatasetIsEmpty, MissingIssue("thal", 4000)}] : n \in 0..MaxEntries }

RawReports ==
    [ dataset_summary : {[num_rows |-> 4, num_columns |-> 2, columns |-> <<"thal", "age">>]},
      missing_values  : DictsOf({2500, 4000}),
      type_issues     : DictsOf(IssueTexts),
      anomalies       : AnomalyDicts,
      severity        : {"LOW", "MEDIUM", "HIGH"},
      blocking_issues : IssueLists ]

----------------------------------------------------------------------------
(* The audit trail is idle in the validator's specifications *)

\* The log file before it is created.  A file that exists holds size bytes:
\* the JSON text of the list data when valid, something json.load rejects
\* (no bytes at all, or a JSON text followed by the rest of a longer one)
\* when not.
NoFile == [exists |-> FALSE, valid |-> FALSE, data |-> <<>>, size |-> 0]
NoResult == [none |-> TRUE]

AuditIdle ==
    /\ log_file = NoFile
    /\ proc = <<>>
    /\ clock = 0
    /\ result = NoResult

ValidatorIdle ==
    /\ df = SeriesDataset(<<>>)
    /\ self = CHOOSE c \in Configs : c.iqr_num = 3
    /\ raw = NoReport
    /\ formatted = NoReport
    /\ previous = NoReport
    /\ raw_at_call = NoReport
    /\ calls = 0
    /\ pc = "idle"

----------------------------------------------------------------------------
(* The validation script: agent.run(df), then agent.format_report(raw) *)

Run ==
    /\ pc = "start"
    /\ raw' = run(self, df)
    /\ pc' = "validated"
    /\ UNCHANGED <<df, self, formatted, previous, raw_at_call, calls>>
    /\ UNCHANGED audit_vars

FormatReport ==
    /\ pc = "validated"
    /\ calls < MaxFormatCalls
    /\ raw_at_call' = raw
    /\ previous' = formatted
    /\ formatted' = format_report(raw)
    /\ calls' = calls + 1
    /\ UNCHANGED <<df, self, raw, pc>>
    /\ UNCHANGED audit_vars

InitRun ==
    /\ self \in Configs
    /\ raw = NoReport
    /\ formatted = NoReport
    /\ previous = NoReport
    /\ raw_at_call = NoReport
    /\ calls = 0
    /\ pc = "start"
    /\ AuditIdle

\* run on every small DataFrame
Init ==
    /\ \E n \in 0..MaxRows, k \in 0..MaxCols :
          \E cs \in [1..k -> ColumnsOf(n)] : df = Dataset(n, cs)
    /\ InitRun
Next == Run
Spec == Init /\ [][Next]_vars

\* run on one numeric column
InitOutliers ==
    /\ \/ \E n \in 1..MaxSeries : \E cells \in [1..n -> SeriesCells] :
             df = SeriesDataset(cells)
       \/ df = SeriesDataset(ExampleSeries)
    /\ InitRun
NextOutliers == Run
SpecOutliers == InitOutliers /\ [][NextOutliers]_vars

\* format_report on every raw report
InitFormat ==
    /\ df = SeriesDataset(<<>>)
    /\ self \in {c \in Configs : c.iqr_num = 3}
    /\ raw \in RawReports
    /\ formatted = NoReport
    /\ previous = NoReport
    /\ raw_at_call = NoReport
    /\ calls = 0
    /\ pc = "validated"
    /\ AuditIdle
NextFormat == FormatReport
SpecFormat == InitFormat /\ [][NextFormat]_vars

----------------------------------------------------------------------------
(* Properties of run *)

Validated == pc = "validated"

\* The items of a dict whose column is name
ItemsOf(dict, name) == {i \in DOMAIN dict : dict[i].col = name}

\* The columns of df, in order, whose recorded missing fraction reaches the
\* critical threshold
CriticalColumns ==
    MapSeq(SelectSeq(df.columns,
                     LAMBDA c : \E i \in ItemsOf(raw.missing_values, c.name) :
                                  raw.missing_values[i].val >= self.missing_critical_threshold),
           LAMBDA c : c.name)

NullCount(c) == Cardinality({i \in DOMAIN c.cells : c.cells[i] = Null})

\* v is num/den to the nearest ten-thousandth
Nearest4(v, num, den) ==
    /\ 2 * (v * den - 10000 * num) <= den
    /\ 2 * (10000 * num - v * den) <= den

\* missing_values records exactly the columns with a missing cell, each once,
\* with its missing fraction to 4 decimal places
MissingRecorded ==
    \A j \in DOMAIN df.columns :
        LET c == df.columns[j]
            items == ItemsOf(raw.missing_values, c.name)
        IN  IF NullCount(c) = 0
            THEN items = {}
            ELSE /\ Cardinality(items) = 1
                 /\ \A i \in items :
                      Nearest4(raw.missing_values[i].val, NullCount(c), df.num_rows)

\* C1: for every dataset with zero rows, whatever its columns, run returns
\* the fixed empty-dataset report: severity HIGH, the single blocking issue
\* "Dataset is empty", and no missing values, type issues or anomalies.
C1_EmptyDatasetReport ==
    (Validated /\ df.num_rows = 0) =>
        /\ raw.severity = "HIGH"
        /\ Len(raw.blocking_issues) = 1
        /\ raw.blocking_issues[1].text = "Dataset is empty"
        /\ raw.missing_values = <<>>
        /\ raw.type_issues = <<>>
        /\ raw.anomalies = <<>>

\* C1 witness: run has returned for a dataset of zero rows that has columns
C1_Witness ==
    /\ Validated
    /\ df.num_rows = 0
    /\ Len(df.columns) = 2

\* C2: for every non-empty dataset and critical threshold, the severity is
\* HIGH if some column's recorded missing fraction reaches the threshold, and
\* then the blocking issues name exactly those columns, once each, in the
\* dataset's column order, whatever the type issues and anomalies are.
C2_CriticalMissingIsHigh ==
    (Validated /\ ~empty(df)) =>
        /\ MissingRecorded
        /\ CriticalColumns # <<>> =>
              /\ raw.severity = "HIGH"
              /\ MapSeq(raw.blocking_issues, LAMBDA b : b.col) = CriticalColumns
              /\ \A i \in DOMAIN raw.blocking_issues :
                    raw.blocking_issues[i].text = "missing"

\* C2 witness: the second column reaches the threshold while the first has
\* a type issue, and the report is HIGH with the one blocking issue
C2_Witness ==
    /\ Validated
    /\ raw.type_issues # <<>>
    /\ CriticalColumns = <<"age">>
    /\ raw.severity = "HIGH"
    /\ Len(raw.blocking_issues) = 1

\* C3: for every non-empty dataset in which no recorded missing fraction
\* reaches the critical threshold, there are no blocking issues and the
\* severity is MEDIUM when there is a type issue or an anomaly, LOW otherwise.
C3_BelowCriticalSeverity ==
    (Validated /\ ~empty(df) /\ CriticalColumns = <<>>) =>
        /\ raw.blocking_issues = <<>>
        /\ (raw.type_issues # <<>> \/ raw.anomalies # <<>>) => raw.severity = "MEDIUM"
        /\ (raw.type_issues = <<>> /\ raw.anomalies = <<>>) => raw.severity = "LOW"

\* C3 witness: missing values below the critical threshold, and nothing else
C3_Witness ==
    /\ Validated
    /\ raw.missing_values # <<>>
    /\ raw.severity = "LOW"

\* C4: in every report returned by run, there are blocking issues if and
\* only if the severity is HIGH.
C4_BlockingIffHigh ==
    Validated => (raw.blocking_issues # <<>> <=> raw.severity = "HIGH")

\* C4 witness: a MEDIUM report (its blocking issues are empty)
C4_Witness ==
    /\ Validated
    /\ raw.severity = "MEDIUM"
    /\ raw.missing_values # <<>>

\* C5: for every dataset with at least one row, a dataset without columns
\* included, the summary reports the dataset's row count, column count and
\* column names, and the empty-dataset report is returned for zero rows only.
C5_SummaryOfEveryDatasetWithRows ==
    (Validated /\ df.num_rows >= 1) =>
        /\ raw.dataset_summary.num_rows = df.num_rows
        /\ raw.dataset_summary.num_columns = Len(df.columns)
        /\ raw.dataset_summary.columns = MapSeq(df.columns, LAMBDA c : c.name)
        /\ \A i \in DOMAIN raw.blocking_issues :
              raw.blocking_issues[i].text # "Dataset is empty"

----------------------------------------------------------------------------
(* Properties of the outlier detection, on one numeric column *)

TheColumn == df.columns[1]
TheValues == Values(TheColumn)

\* The k-th smallest of a non-empty sequence of integers
Kth(values, k) ==
    CHOOSE x \in {values[i] : i \in DOMAIN values} :
        /\ Cardinality({i \in DOMAIN values : values[i] < x}) < k
        /\ Cardinality({i \in DOMAIN values : values[i] <= x}) >= k

\* Four times the quartile at fourths/4, by linear interpolation between the
\* order statistics around (n - 1) * fourths / 4
Quartile4(values, fourths) ==
    LET below == ((Len(values) - 1) * fourths) \div 4
        part  == ((Len(values) - 1) * fourths) % 4
    IN  IF part = 0
        THEN 4 * Kth(values, below + 1)
        ELSE (4 - part) * Kth(values, below + 1) + part * Kth(values, below + 2)

\* x lies strictly outside [Q1 - k*IQR, Q3 + k*IQR], k = iqr_num / iqr_den
StrictlyOutside(values, x) ==
    LET q1 == Quartile4(values, 1)
        q3 == Quartile4(values, 3)
    IN  \/ 4 * x * self.iqr_den < q1 * self.iqr_den - self.iqr_num * (q3 - q1)
        \/ 4 * x * self.iqr_den > q3 * self.iqr_den + self.iqr_num * (q3 - q1)

Outside(values) == {i \in DOMAIN values : StrictlyOutside(values, values[i])}

\* The sequence with the elements at i and j exchanged
Swap(s, i, j) == [s EXCEPT ![i] = s[j], ![j] = s[i]]

\* The anomalies are those of every reordering of the rows (every exchange
\* of two rows, and so every permutation)
OrderInvariant ==
    \A i, j \in DOMAIN TheColumn.cells :
        i < j =>
        _detect_outliers(self, SeriesDataset(Swap(TheColumn.cells, i, j))) = raw.anomalies

AnomalyRecorded(exact) ==
    LET count == Cardinality(Outside(TheValues))
    IN  /\ raw.anomalies # <<>> <=> count > 0
        /\ count > 0 =>
              /\ Len(raw.anomalies) = 1
              /\ raw.anomalies[1].col = TheColumn.name
              /\ raw.anomalies[1].method = "IQR"
              /\ raw.anomalies[1].count = count
              /\ IF exact
                 THEN raw.anomalies[1].percentage * Len(TheValues) = 10000 * count
                 ELSE Nearest4(raw.anomalies[1].percentage, count, Len(TheValues))

ExampleAnomaly ==
    (df = SeriesDataset(ExampleSeries) /\ self.iqr_num = 3 /\ self.iqr_den = 2) =>
        /\ Len(raw.anomalies) = 1
        /\ raw.anomalies[1].count = 1
        /\ raw.anomalies[1].percentage = 1000

\* C6, as amended: for a numeric column with a non-missing value, the anomaly
\* count is the number of non-missing values strictly outside
\* [Q1 - k*IQR, Q3 + k*IQR]; the column is in anomalies iff the count is > 0,
\* with percentage = count / non-missing values rounded to 4 decimal places;
\* the result does not depend on the order of the rows; the example column
\* 1..9, 1000 has count 1 and percentage 0.1.
C6_OutlierCountRounded ==
    (Validated /\ Len(TheValues) >= 1) =>
        /\ AnomalyRecorded(FALSE)
        /\ OrderInvariant
        /\ ExampleAnomaly

\* C6 witness: a value equal to both bounds is not counted, one above is
C6_Witness ==
    /\ Validated
    /\ TheValues = <<0, 9, 0, 0, 0>>
    /\ self.iqr_num = 3
    /\ Len(raw.anomalies) = 1
    /\ raw.anomalies[1].count = 1

\* C6 as stated: the same, with percentage = count / non-missing values
\* exactly.
C6_OutlierCountExact ==
    (Validated /\ Len(TheValues) >= 1) =>
        /\ AnomalyRecorded(TRUE)
        /\ OrderInvariant
        /\ ExampleAnomaly

----------------------------------------------------------------------------
(* Properties of format_report *)

Optional(cond, item) == IF cond THEN <<item>> ELSE <<>>

\* C7: the recommendations start with exactly one of Resolve (iff there are
\* blocking issues) and Proceed (iff there are none), followed in this order
\* by the anomaly item iff anomalies is non-empty, the no-missing item iff
\* missing_values is empty and the no-type-fix item iff type_issues is
\* empty; there are between 1 and 4 of them.
C7_Recommendations ==
    calls >= 1 =>
        LET r == formatted.recommendations
        IN  /\ Len(r) \in 1..4
            /\ r[1] = Resolve <=> raw.blocking_issues # <<>>
            /\ r[1] = Proceed <=> raw.blocking_issues = <<>>
            /\ Cardinality({i \in DOMAIN r : r[i] \in {Resolve, Proceed}}) = 1
            /\ Tail(r) = Optional(raw.anomalies # <<>>, ReviewAnomalies)
                         \o Optional(raw.missing_values = <<>>, NoMissing)
                         \o Optional(raw.type_issues = <<>>, NoTypeFix)

\* C7 witness: a report with blocking issues for which all four checks fire
C7_Witness ==
    /\ calls >= 1
    /\ formatted.recommendations = <<Resolve, ReviewAnomalies, NoMissing, NoTypeFix>>

\* C8: format_report passes its raw report through: the severity, the
\* blocking flag and the three detail maps are those of the raw report, even
\* when its severity does not fit its other fields; the raw report is left
\* as it was; a second call returns an equal formatted report.
C8_PassThrough ==
    calls >= 1 =>
        /\ formatted.status.severity = raw.severity
        /\ formatted.status.blocking = (raw.blocking_issues # <<>>)
        /\ formatted.data_quality.missing_values.details = raw.missing_values
        /\ formatted.data_quality.type_issues.details = raw.type_issues
        /\ formatted.anomaly_analysis.details = raw.anomalies
        /\ raw = raw_at_call
        /\ calls >= 2 => previous = formatted

\* C8 witness: format_report called twice on a LOW report that has blocking
\* issues
C8_Witness ==
    /\ calls = 2
    /\ raw.severity = "LOW"
    /\ raw.blocking_issues # <<>>
    /\ raw.anomalies # <<>>

----------------------------------------------------------------------------
(* AuditTrailAgent *)

\* An optional argument: None is the empty set, a value v is {v}
None == {}
Some(v) == {v}
ValueOf(arg) == CHOOSE v \in arg : TRUE

\* Python truth value of an optional string: None and "" are false
Truthy(arg) == arg # None /\ arg # Some("")

AgentNames == {"", "X", "YY"}
ActionTypes == {"", "summary", "validation"}

\* Number of characters of a string of AgentNames or ActionTypes
StrLen(str) ==
    CASE str = "" -> 0
      [] str = "X" -> 1
      [] str = "YY" -> 2
      [] str = "summary" -> 7
      [] str = "validation" -> 10

\* log_entry; inputs identifies the call that logs it
LogEntry(now, agent_name, action_type, inputs) ==
    [ timestamp   |-> now,
      agent_name  |-> agent_name,
      action_type |-> action_type,
      inputs      |-> inputs ]

\* Number of characters json.dump(data, f, indent=4) writes, up to a
\* constant per entry
RECURSIVE DumpSize(_)
DumpSize(data) ==
    IF data = <<>> THEN 2
    ELSE 1 + StrLen(Head(data).agent_name) + StrLen(Head(data).action_type)
           + DumpSize(Tail(data))

\* open(log_file, "w"): the file is created or truncated
OpenForWriting(file) == [exists |-> TRUE, valid |-> FALSE, data |-> <<>>, size |-> 0]

\* f.seek(0); json.dump(data, f): the text replaces the first bytes of the
\* file, and the bytes of a longer file stay behind it
DumpAtStart(file, data) ==
    IF DumpSize(data) < file.size
    THEN [exists |-> TRUE, valid |-> FALSE, data |-> data, size |-> file.size]
    ELSE [exists |-> TRUE, valid |-> TRUE, data |-> data, size |-> DumpSize(data)]

\* The filters of query_logs
query_logs(data, agent_name, action_type) ==
    LET by_agent == IF Truthy(agent_name)
                    THEN SelectSeq(data, LAMBDA d : d.agent_name = ValueOf(agent_name))
                    ELSE data
    IN  IF Truthy(action_type)
        THEN SelectSeq(by_agent, LAMBDA d : d.action_type = ValueOf(action_type))
        ELSE by_agent

Client == [pc |-> "new", data |-> <<>>, entry |-> LogEntry(0, "", "", 0), returned |-> {}]

----------------------------------------------------------------------------
(* One client of the audit log: every call runs to its end *)

\* AuditTrailAgent(log_file)
Construct ==
    /\ proc[1].pc = "new"
    /\ log_file' = IF log_file.exists THEN log_file
                   ELSE DumpAtStart(OpenForWriting(log_file), <<>>)
    /\ proc' = [proc EXCEPT ![1].pc = "ready"]
    /\ UNCHANGED <<clock, result>>
    /\ UNCHANGED validator_vars

LogAction(agent_name, action_type) ==
    /\ proc[1].pc = "ready"
    /\ clock < MaxLog
    /\ log_file.valid
    /\ clock' = clock + 1
    /\ log_file' = DumpAtStart(log_file,
                               Append(log_file.data,
                                      LogEntry(clock', agent_name, action_type, clock')))
    /\ proc' = [proc EXCEPT ![1].returned = @ \union {clock'}]
    /\ result' = NoResult
    /\ UNCHANGED validator_vars

QueryLogs(agent_name, action_type) ==
    /\ proc[1].pc = "ready"
    /\ log_file.valid
    /\ result' = [ agent_name  |-> agent_name,
                   action_type |-> action_type,
                   log         |-> log_file.data,
                   records     |-> query_logs(log_file.data, agent_name, action_type) ]
    /\ UNCHANGED <<log_file, proc, clock>>
    /\ UNCHANGED validator_vars

Filters(strings) == {None} \union {Some(v) : v \in strings}

InitAudit ==
    /\ ValidatorIdle
    /\ log_file = NoFile
    /\ proc = <<Client>>
    /\ clock = 0
    /\ result = NoResult

NextAudit ==
    \/ Construct
    \/ \E a \in AgentNames, t \in ActionTypes : LogAction(a, t)
    \/ \E a \in Filters(AgentNames), t \in Filters(ActionTypes) : QueryLogs(a, t)

SpecAudit == InitAudit /\ [][NextAudit]_vars

----------------------------------------------------------------------------
(* Several clients of one log file, interleaved at their file operations *)

Clients == 1..NumClients

\* The agent name client p logs under
NameOf(p) == IF p % 2 = 1 THEN "YY" ELSE "X"

\* __init__: os.path.exists(self.log_file)
InitExists(p) ==
    /\ proc[p].pc = "new"
    /\ proc' = [proc EXCEPT ![p].pc = IF log_file.exists THEN "ready" ELSE "create"]
    /\ UNCHANGED <<log_file, clock, result>>
    /\ UNCHANGED validator_vars

\* __init__: open(self.log_file, "w")
InitOpen(p) ==
    /\ proc[p].pc = "create"
    /\ log_file' = OpenForWriting(log_file)
    /\ proc' = [proc EXCEPT ![p].pc = "dump"]
    /\ UNCHANGED <<clock, result>>
    /\ UNCHANGED validator_vars

\* __init__: json.dump([], f) and the end of the with block
InitDump(p) ==
    /\ proc[p].pc = "dump"
    /\ log_file' = DumpAtStart(log_file, <<>>)
    /\ proc' = [proc EXCEPT ![p].pc = "ready"]
    /\ UNCHANGED <<clock, result>>
    /\ UNCHANGED validator_vars

\* log_action: the entry is built, the file opened "r+" and json.load(f)
\* returns the list; json.load raises on a file that holds no JSON text and
\* the call ends there
LogRead(p) ==
    /\ proc[p].pc = "ready"
    /\ clock < MaxLog
    /\ clock' = clock + 1
    /\ proc' = IF log_file.valid
               THEN [proc EXCEPT ![p].pc = "loaded",
                                 ![p].data = log_file.data,
                                 ![p].entry = LogEntry(clock', NameOf(p), "validation", clock')]
               ELSE proc
    /\ UNCHANGED <<log_file, result>>
    /\ UNCHANGED validator_vars

\* log_action: data.append(log_entry); f.seek(0); json.dump(data, f) and
\* the end of the with block; the call returns
LogWrite(p) ==
    /\ proc[p].pc = "loaded"
    /\ log_file' = DumpAtStart(log_file, Append(proc[p].data, proc[p].entry))
    /\ proc' = [proc EXCEPT ![p].pc = "ready",
                            ![p].data = <<>>,
                            ![p].returned = @ \union {proc[p].entry.inputs}]
    /\ UNCHANGED <<clock, result>>
    /\ UNCHANGED validator_vars

\* The log file is absent, or left holding [] by an earlier run
InitConcurrent ==
    /\ ValidatorIdle
    /\ log_file \in {NoFile, DumpAtStart(OpenForWriting(NoFile), <<>>)}
    /\ proc = [p \in Clients |-> Client]
    /\ clock = 0
    /\ result = NoResult

NextConcurrent ==
    \E p \in Clients :
        \/ InitExists(p)
        \/ InitOpen(p)
        \/ InitDump(p)
        \/ LogRead(p)
        \/ LogWrite(p)

SpecConcurrent == InitConcurrent /\ [][NextConcurrent]_vars

----------------------------------------------------------------------------
(* Properties of the audit log *)

Matches(d, agent_name, action_type) ==
    /\ agent_name # None => d.agent_name = ValueOf(agent_name)
    /\ action_type # None => d.action_type = ValueOf(action_type)

\* C9: after any sequence of log_action calls by one writer, query_logs(a, t)
\* returns exactly the logged records whose agent_name is a and whose
\* action_type is t, a filter that is omitted restricting nothing, in the
\* order they were logged; querying leaves the log as it was.
C9_QueryIsExactFilter ==
    result # NoResult =>
        /\ result.records =
              SelectSeq(result.log, LAMBDA d : Matches(d, result.agent_name, result.action_type))
        /\ log_file.valid
        /\ log_file.data = result.log

\* C10: under every interleaving of log_action calls on one log file, each
\* call that has returned has exactly one record in the log, and no record
\* logged before is lost, duplicated or altered.
C10_AppendOnly ==
    \A p \in DOMAIN proc :
        \A call \in proc[p].returned :
            /\ log_file.valid
            /\ Cardinality({i \in DOMAIN log_file.data :
                              log_file.data[i].inputs = call}) = 1
            /\ \A i \in DOMAIN log_file.data :
                  log_file.data[i].inputs = call =>
                      /\ log_file.data[i].timestamp = call
                      /\ log_file.data[i].agent_name = NameOf(p)

====
